---- MODULE Spec2Model ----
(***************************************************************************)
(* Model of mounch.py: the frequency cache (sort_from_cache) and the run   *)
(* of main() against the cache file.                                       *)
(*                                                                         *)
(* Text is a sequence of one-character strings.  An ordered mapping (a     *)
(* Python dict) is a sequence of <<key, value>> pairs with distinct keys,  *)
(* in insertion order.                                                     *)
(***************************************************************************)
EXTENDS Integers, Sequences, FiniteSets, TLC

\* ------------------------------------------------------------------ bounds
MaxEntries == 3      \* entries of the config mapping, runs of main()
MaxLines == 2        \* lines of the initial cache file, runs of main()
MaxRuns == 3         \* consecutive runs of main()
MaxSortEntries == 3  \* entries of the config mapping, sort_from_cache alone
MaxSortLines == 3    \* lines of the cache text, sort_from_cache alone

\* ------------------------------------------------------- ordered mappings
Keys(d) == [i \in 1..Len(d) |-> d[i][1]]

HasKey(d, k) == \E i \in 1..Len(d) : d[i][1] = k

Get(d, k) == d[CHOOSE i \in 1..Len(d) : d[i][1] = k][2]

\* d[k] = v : an existing key keeps its position, a new key goes last
Put(d, k, v) ==
    IF HasKey(d, k)
    THEN [i \in 1..Len(d) |-> IF d[i][1] = k THEN <<k, v>> ELSE d[i]]
    ELSE Append(d, <<k, v>>)

RECURSIVE DictOf(_, _)
\* dict(pairs), {**d1, **d2} : fold Put over the pairs, from acc
DictOf(pairs, acc) ==
    IF pairs = <<>> THEN acc
    ELSE DictOf(Tail(pairs), Put(acc, Head(pairs)[1], Head(pairs)[2]))

Reversed(s) == [i \in 1..Len(s) |-> s[Len(s) + 1 - i]]

\* ------------------------------------------------------------------- text
Whitespace == {" ", "\t", "\n", "\r"}

Digits == <<"0", "1", "2", "3", "4", "5", "6", "7", "8", "9">>

IsDigit(c) == \E i \in 1..10 : Digits[i] = c

DigitVal(c) == (CHOOSE i \in 1..10 : Digits[i] = c) - 1

RECURSIVE SplitAcc(_, _, _, _)
\* str.split(sep): the pieces between the separators, empty pieces kept
SplitAcc(t, sep, cur, acc) ==
    IF t = <<>> THEN Append(acc, cur)
    ELSE IF Head(t) = sep
         THEN SplitAcc(Tail(t), sep, <<>>, Append(acc, cur))
         ELSE SplitAcc(Tail(t), sep, Append(cur, Head(t)), acc)

Split(t, sep) == SplitAcc(t, sep, <<>>, <<>>)

RECURSIVE WordsAcc(_, _, _)
\* str.strip().split(): the maximal runs of non-whitespace characters
WordsAcc(t, cur, acc) ==
    IF t = <<>> THEN (IF cur = <<>> THEN acc ELSE Append(acc, cur))
    ELSE IF Head(t) \in Whitespace
         THEN WordsAcc(Tail(t), <<>>, IF cur = <<>> THEN acc ELSE Append(acc, cur))
         ELSE WordsAcc(Tail(t), Append(cur, Head(t)), acc)

Words(t) == WordsAcc(t, <<>>, <<>>)

RECURSIVE DigitsValue(_, _)
DigitsValue(t, acc) ==
    IF t = <<>> THEN acc ELSE DigitsValue(Tail(t), 10 * acc + DigitVal(Head(t)))

AllDigits(t) == t # <<>> /\ \A i \in 1..Len(t) : IsDigit(t[i])

\* int(s) for a token s: an optional sign, then decimal digits; anything
\* else is a ValueError (ok = FALSE).  The texts of the model hold neither
\* underscores nor digits outside 0-9, which int() also admits.
ParseInt(t) ==
    IF t # <<>> /\ Head(t) \in {"+", "-"}
    THEN IF AllDigits(Tail(t))
         THEN [ok |-> TRUE,
               val |-> IF Head(t) = "-" THEN 0 - DigitsValue(Tail(t), 0)
                       ELSE DigitsValue(Tail(t), 0)]
         ELSE [ok |-> FALSE, val |-> 0]
    ELSE IF AllDigits(t)
         THEN [ok |-> TRUE, val |-> DigitsValue(t, 0)]
         ELSE [ok |-> FALSE, val |-> 0]

RECURSIVE FormatNat(_)
FormatNat(n) ==
    IF n < 10 THEN <<Digits[n + 1]>>
    ELSE Append(FormatNat(n \div 10), Digits[(n % 10) + 1])

\* str(n) as the f-string writes it
FormatInt(n) == IF n < 0 THEN <<"-">> \o FormatNat(0 - n) ELSE FormatNat(n)

RECURSIVE Join(_, _)
\* sep.join(parts)
Join(parts, sep) ==
    IF parts = <<>> THEN <<>>
    ELSE IF Len(parts) = 1 THEN parts[1]
    ELSE parts[1] \o <<sep>> \o Join(Tail(parts), sep)

\* ------------------------------------------------------------------ state
VARIABLES
    config,             \* the mapping yaml.safe_load returns, in file order
    cache_file,         \* ~/.cache/mounch/cache: [exists, text]
    cache_dir,          \* whether ~/.cache/mounch exists
    pc,                 \* position of the run
    application_config, \* main's (reordered) mapping
    cached_entries,     \* main's frequency mapping
    again,              \* result of a second sort_from_cache (SortSpec)
    output,             \* the menu's stripped stdout
    chosen_id,
    status,             \* how the run ended: "none", "exit0", "exit1", "exec",
                        \* "raised" (sort_from_cache raised), "IndexError"
    argv,               \* argument vector given to os.execv, <<>> if none
    run,                \* number of the current run
    file_at_start,      \* history: cache_file when the run started
    dir_at_start,       \* history: cache_dir when the run started
    fresh,              \* history: the first run started with no or an empty cache file
    uses                \* history: the ids the runs recorded, in order

vars == <<config, cache_file, cache_dir, pc, application_config, cached_entries,
          again, output, chosen_id, status, argv, run, file_at_start,
          dir_at_start, fresh, uses>>

NoId == <<>>

\* ----------------------------------------------------------------- inputs
IdA == <<"a">>
IdB == <<"b">>
IdC == <<"c">>
IdAB == <<"a", " ", "b">>

\* entry definitions as the yaml document gives them: args is absent
\* ("none"), a string, or a list of strings
DefEmacs == [description |-> "Emacs", binary |-> "emacs", args |-> [kind |-> "none"]]
DefSuspend == [description |-> "Suspend", binary |-> "systemctl",
               args |-> [kind |-> "str", value |-> "suspend"]]
DefSsh == [description |-> "SSH", binary |-> "rofi",
           args |-> [kind |-> "list", value |-> <<"-show", "ssh">>]]

DefOf(id) ==
    CASE id = IdA -> DefEmacs
      [] id = IdB -> DefSsh
      [] id = IdC -> DefEmacs
      [] OTHER -> DefSuspend

\* the executables found on the search path
OnPath == {"emacs", "systemctl"}

\* the mappings with at most n entries whose ids are in ids
ConfigsOver(ids, n) ==
    { [i \in 1..Len(ks) |-> <<ks[i], DefOf(ks[i])>>] :
        ks \in { s \in UNION { [1..k -> ids] : k \in 1..n } :
                   \A i, j \in 1..Len(s) : i # j => s[i] # s[j] } }

\* the texts of at most n lines, each from lines
TextsOver(lines, n) ==
    { Join(ls, "\n") : ls \in UNION { [1..k -> lines] : k \in 0..n } }

\* --------------------------------------------------------- sort_from_cache
CaughtIndexErrorOnly == {"IndexError"}

\* except (IndexError, ValueError)
Caught == {"IndexError", "ValueError"}

\* mutant: the test "id_ not in application_config" left out
ParseLineAnyId(entry, app_config) ==
    LET words == Words(entry) IN
    IF Len(words) # 2 THEN [kind |-> "raise", exc |-> "ValueError"]
    ELSE IF ~ParseInt(words[2]).ok THEN [kind |-> "raise", exc |-> "ValueError"]
    ELSE [kind |-> "set", id |-> words[1], freq |-> ParseInt(words[2]).val]

\* the body of the try block for one line of the cache text
ParseLine(entry, app_config) ==
    LET words == Words(entry) IN
    IF Len(words) # 2 THEN [kind |-> "raise", exc |-> "ValueError"]
    ELSE IF ~HasKey(app_config, words[1]) THEN [kind |-> "continue"]
    ELSE IF ~ParseInt(words[2]).ok THEN [kind |-> "raise", exc |-> "ValueError"]
    ELSE [kind |-> "set", id |-> words[1], freq |-> ParseInt(words[2]).val]

RECURSIVE LoadEntries(_, _, _)
\* the for loop: [entries, raised]
LoadEntries(lines, app_config, acc) ==
    IF lines = <<>> THEN [entries |-> acc, raised |-> FALSE]
    ELSE LET r == ParseLine(Head(lines), app_config) IN
         IF r.kind = "set"
         THEN LoadEntries(Tail(lines), app_config, Put(acc, r.id, r.freq))
         ELSE IF r.kind = "raise" /\ r.exc \notin Caught
              THEN [entries |-> acc, raised |-> TRUE]
              ELSE LoadEntries(Tail(lines), app_config, acc)

\* x placed after every item whose frequency is not greater (stable)
InsertByFreq(sorted, x) ==
    LET n == Cardinality({i \in 1..Len(sorted) : sorted[i][2] <= x[2]}) IN
    SubSeq(sorted, 1, n) \o <<x>> \o SubSeq(sorted, n + 1, Len(sorted))

RECURSIVE SortedByFreq(_)
\* sorted(items, key=lambda item: item[1])
SortedByFreq(items) ==
    IF items = <<>> THEN <<>>
    ELSE InsertByFreq(SortedByFreq(SubSeq(items, 1, Len(items) - 1)), items[Len(items)])

\* mutant: sorted(..., reverse=True), which keeps ties in cache order
RankedIdsReverseFlag(entries) ==
    Keys(DictOf(Reversed(SortedByFreq(Reversed(entries))), <<>>))

\* mutant: the reversed() forgotten
RankedIdsAscending(entries) == Keys(DictOf(SortedByFreq(entries), <<>>))

\* dict(reversed(sorted(...))).keys()
RankedIds(entries) == Keys(DictOf(Reversed(SortedByFreq(entries)), <<>>))

\* el.strip() is a non-empty string
Strips(el) == \E i \in 1..Len(el) : el[i] \notin Whitespace

\* dict(OrderedDict([(el, application_config[el]) for el in ... if el.strip()]))
FrequentFirst(ids, app_config) ==
    DictOf([i \in 1..Len(SelectSeq(ids, Strips)) |->
              <<SelectSeq(ids, Strips)[i], Get(app_config, SelectSeq(ids, Strips)[i])>>],
           <<>>)

\* mutant: the config merged in from its last entry to its first
MergeConfigReversed(first, app_config) == DictOf(Reversed(app_config), first)

\* mutant: the config not merged in
MergeConfigFirstOnly(first, app_config) == first

\* {**first, **application_config}
MergeConfig(first, app_config) == DictOf(app_config, first)

\* application_config[el] raises KeyError for an el that is no key
KeyErrors(ids, app_config) == \E i \in 1..Len(ids) : ~HasKey(app_config, ids[i])

sort_from_cache(app_config, text) ==
    LET loaded == LoadEntries(Split(text, "\n"), app_config, <<>>)
        ranked == SelectSeq(RankedIds(loaded.entries), Strips) IN
    IF loaded.raised \/ KeyErrors(ranked, app_config)
    THEN [application_config |-> app_config,
          cached_entries |-> loaded.entries,
          raised |-> TRUE]
    ELSE [application_config |->
              MergeConfig(FrequentFirst(RankedIds(loaded.entries), app_config), app_config),
          cached_entries |-> loaded.entries,
          raised |-> FALSE]

\* ------------------------------------------- sort_from_cache on its own
SortIds == {IdA, IdB, IdC, IdAB}

SortLines == { <<"a", " ", "5">>, <<"b", " ", "5">>, <<"c", " ", "2">>,
               <<"a", " ", "2">>, <<"a", " ", "b", " ", "1">>, <<"b", " ", "x">> }

InitSort ==
    /\ config \in ConfigsOver(SortIds, MaxSortEntries)
    /\ cache_file \in { [exists |-> TRUE, text |-> t] : t \in TextsOver(SortLines, MaxSortLines) }
    /\ cache_dir = TRUE
    /\ pc = "input"
    /\ application_config = config
    /\ cached_entries = <<>>
    /\ again = [application_config |-> <<>>, cached_entries |-> <<>>, raised |-> FALSE]
    /\ output = ""
    /\ chosen_id = <<>>
    /\ status = "none"
    /\ argv = <<>>
    /\ run = 1
    /\ file_at_start = cache_file
    /\ dir_at_start = cache_dir
    /\ fresh = FALSE
    /\ uses = <<>>

\* application_config, cached_entries = sort_from_cache(application_config, cache_file)
Sort ==
    /\ pc = "input"
    /\ LET r == sort_from_cache(application_config, cache_file.text) IN
         /\ application_config' = r.application_config
         /\ cached_entries' = r.cached_entries
         /\ status' = IF r.raised THEN "raised" ELSE status
    /\ pc' = "sorted"
    /\ UNCHANGED <<config, cache_file, cache_dir, again, output, chosen_id, argv, run,
                   file_at_start, dir_at_start, fresh, uses>>

\* sort_from_cache applied to the mapping it returned, with the same cache
Resort ==
    /\ pc = "sorted"
    /\ again' = sort_from_cache(application_config, cache_file.text)
    /\ pc' = "resorted"
    /\ UNCHANGED <<config, cache_file, cache_dir, application_config, cached_entries,
                   output, chosen_id, status, argv, run, file_at_start, dir_at_start,
                   fresh, uses>>

NextSort == Sort \/ Resort

SortSpec == InitSort /\ [][NextSort]_vars

\* ------------------------------------------------------------------ main
\* The runs below assume what main() takes for granted: the config file
\* exists and holds a mapping, and ~/.cache exists.
MainIds == {IdA, IdB, IdAB}

MainLines == { <<"a", " ", "5">>, <<"b", " ", "9">>, <<"d", " ", "3">>,
               <<"b", " ", "-", "1">>, <<"b", " ", "x">> }

NoFile == [exists |-> FALSE, text |-> <<>>]

NoResult == [application_config |-> <<>>, cached_entries |-> <<>>, raised |-> FALSE]

Init ==
    /\ config \in ConfigsOver(MainIds, MaxEntries)
    /\ \/ /\ cache_file \in { [exists |-> TRUE, text |-> t] : t \in TextsOver(MainLines, MaxLines) }
          /\ cache_dir = TRUE
       \/ /\ cache_file = NoFile
          /\ cache_dir \in BOOLEAN
    /\ pc = "start"
    /\ application_config = config
    /\ cached_entries = <<>>
    /\ again = NoResult
    /\ output = ""
    /\ chosen_id = NoId
    /\ status = "none"
    /\ argv = <<>>
    /\ run = 1
    /\ file_at_start = cache_file
    /\ dir_at_start = cache_dir
    /\ fresh = (~cache_file.exists \/ cache_file.text = <<>>)
    /\ uses = <<>>

\* lines 135-139: the cache is sorted from only when the file exists
LoadCache ==
    /\ pc = "start"
    /\ IF cache_file.exists
       THEN LET r == sort_from_cache(application_config, cache_file.text) IN
              /\ application_config' = r.application_config
              /\ cached_entries' = r.cached_entries
              /\ status' = IF r.raised THEN "raised" ELSE status
              /\ pc' = IF r.raised THEN "done" ELSE "menu"
       ELSE /\ cached_entries' = <<>>
            /\ pc' = "menu"
            /\ UNCHANGED <<application_config, status>>
    /\ UNCHANGED <<config, cache_file, cache_dir, again, output, chosen_id, argv, run,
                   file_at_start, dir_at_start, fresh, uses>>

\* what the menu can print: nothing (cancelled), one of the descriptions it
\* was given, or (wofi has no -no-custom) a text that is none of them
MenuOutputs(app_config) ==
    {"", "Other"} \cup { app_config[i][2].description : i \in 1..Len(app_config) }

HasDescription(app_config, out) ==
    \E i \in 1..Len(app_config) : app_config[i][2].description = out

\* [x for x in application_config if application_config[x]['description'] == output][0]
FirstWithDescription(app_config, out) ==
    app_config[CHOOSE i \in 1..Len(app_config) :
                 /\ app_config[i][2].description = out
                 /\ \A j \in 1..(i - 1) : app_config[j][2].description # out][1]

\* mutant: the cache directory made before the test of the menu's output
MenuAfterMkdir ==
    /\ pc = "menu"
    /\ cache_dir' = TRUE
    /\ \E out \in MenuOutputs(application_config) :
         /\ output' = out
         /\ IF out = ""
            THEN /\ pc' = "done"
                 /\ status' = "exit0"
                 /\ chosen_id' = NoId
            ELSE IF ~HasDescription(application_config, out)
            THEN /\ pc' = "done"
                 /\ status' = "IndexError"
                 /\ chosen_id' = NoId
            ELSE /\ pc' = "chosen"
                 /\ status' = status
                 /\ chosen_id' = FirstWithDescription(application_config, out)
    /\ UNCHANGED <<config, cache_file, application_config, cached_entries,
                   again, argv, run, file_at_start, dir_at_start, fresh, uses>>

\* lines 151-161: the menu runs; an empty output returns from main, an
\* output that is no description ends in the IndexError of [...][0]
Menu ==
    /\ pc = "menu"
    /\ \E out \in MenuOutputs(application_config) :
         /\ output' = out
         /\ IF out = ""
            THEN /\ pc' = "done"
                 /\ status' = "exit0"
                 /\ chosen_id' = NoId
            ELSE IF ~HasDescription(application_config, out)
            THEN /\ pc' = "done"
                 /\ status' = "IndexError"
                 /\ chosen_id' = NoId
            ELSE /\ pc' = "chosen"
                 /\ status' = status
                 /\ chosen_id' = FirstWithDescription(application_config, out)
    /\ UNCHANGED <<config, cache_file, cache_dir, application_config, cached_entries,
                   again, argv, run, file_at_start, dir_at_start, fresh, uses>>

\* lines 166-169
Bump(entries, id) ==
    IF ~HasKey(entries, id) THEN Put(entries, id, 0)
    ELSE Put(entries, id, Get(entries, id) + 1)

\* f'{entry} {freq}'
Record(id, freq) == id \o <<" ">> \o FormatInt(freq)

\* '\n'.join([f'{entry} {freq}' for entry, freq in cached_entries.items()])
Serialize(entries) ==
    Join([i \in 1..Len(entries) |-> Record(entries[i][1], entries[i][2])], "\n")

\* shutil.which(binarypath): the path found, or <<>> for None
Which(binary) == IF binary \in OnPath THEN <<"/usr/bin", binary>> ELSE <<>>

\* mutant: the binary resolved first, the cache written only if it is found
RecordSelectionIfFound ==
    /\ pc = "chosen"
    /\ IF Which(Get(application_config, chosen_id).binary) = <<>>
       THEN UNCHANGED <<cache_dir, cached_entries, cache_file>>
       ELSE /\ cache_dir' = TRUE
            /\ cached_entries' = Bump(cached_entries, chosen_id)
            /\ cache_file' = [exists |-> TRUE, text |-> Serialize(cached_entries')]
    /\ uses' = Append(uses, chosen_id)
    /\ pc' = "recorded"
    /\ UNCHANGED <<config, application_config, again, output, chosen_id, status, argv,
                   run, file_at_start, dir_at_start, fresh>>

\* lines 163-171: the directory is made, the count updated, the file rewritten
RecordSelection ==
    /\ pc = "chosen"
    /\ cache_dir' = TRUE
    /\ cached_entries' = Bump(cached_entries, chosen_id)
    /\ cache_file' = [exists |-> TRUE, text |-> Serialize(cached_entries')]
    /\ uses' = Append(uses, chosen_id)
    /\ pc' = "recorded"
    /\ UNCHANGED <<config, application_config, again, output, chosen_id, status, argv,
                   run, file_at_start, dir_at_start, fresh>>

\* lines 179-189: the argument vector given to os.execv
ArgVector(binary, args) ==
    IF args.kind = "none" THEN <<binary>>
    ELSE IF args.kind = "str" THEN <<binary, args.value>>
    ELSE <<binary>> \o args.value

\* lines 173-189: the binary is resolved; exit 1 if not found, else exec
Launch ==
    /\ pc = "recorded"
    /\ LET chosen == Get(application_config, chosen_id)
           binary == Which(chosen.binary) IN
         IF binary = <<>>
         THEN /\ status' = "exit1"
              /\ argv' = <<>>
         ELSE /\ status' = "exec"
              /\ argv' = ArgVector(binary, chosen.args)
    /\ pc' = "done"
    /\ UNCHANGED <<config, cache_file, cache_dir, application_config, cached_entries,
                   again, output, chosen_id, run, file_at_start, dir_at_start, fresh, uses>>

\* the launcher is invoked again, with the same config
NextRun ==
    /\ pc = "done"
    /\ run < MaxRuns
    /\ run' = run + 1
    /\ pc' = "start"
    /\ application_config' = config
    /\ cached_entries' = <<>>
    /\ output' = ""
    /\ chosen_id' = NoId
    /\ status' = "none"
    /\ argv' = <<>>
    /\ file_at_start' = cache_file
    /\ dir_at_start' = cache_dir
    /\ UNCHANGED <<config, cache_file, cache_dir, again, fresh, uses>>

Next == LoadCache \/ Menu \/ RecordSelection \/ Launch \/ NextRun

Spec == Init /\ [][Next]_vars

\* ============================================================= properties
\* What the properties say about a cache text, stated without the loader.
KeySet(d) == { d[i][1] : i \in 1..Len(d) }

Position(seq, x) == CHOOSE i \in 1..Len(seq) : seq[i] = x

IsInteger(token) ==
    LET body == IF token # <<>> /\ token[1] \in {"+", "-"} THEN Tail(token) ELSE token IN
    /\ body # <<>>
    /\ \A i \in 1..Len(body) : body[i] \in {"0", "1", "2", "3", "4", "5", "6", "7", "8", "9"}

\* the frequency a canonical integer token of the inputs denotes
FrequencyOf(token) == CHOOSE n \in -9..9 : FormatInt(n) = token

\* per line of text: its two tokens if it is well-formed, <<>> if it is not
Records(text) ==
    LET lines == Split(text, "\n") IN
    [i \in 1..Len(lines) |->
        LET words == Words(lines[i]) IN
        IF Len(words) = 2 /\ IsInteger(words[2])
        THEN words ELSE <<>>]

\* the indices of the well-formed lines that name id
LinesFor(records, id) ==
    { i \in 1..Len(records) : records[i] # <<>> /\ records[i][1] = id }

\* the ids of M with a retained cache entry
Retained(M, records) == { id \in KeySet(M) : LinesFor(records, id) # {} }

Max(S) == CHOOSE m \in S : \A n \in S : n <= m

Min(S) == CHOOSE m \in S : \A n \in S : m <= n

\* the frequency of a retained id: that of its last well-formed line
Frequency(records, id) == FrequencyOf(records[Max(LinesFor(records, id))][2])

Returned == pc = "sorted"

\* C1: the returned mapping lists first the ids with a retained cache entry,
\* in non-increasing order of frequency, then every other id of the config
\* mapping in the order the config mapping has them.
C1_FrequentFirstThenConfigOrder ==
    Returned =>
        LET out == Keys(application_config)
            records == Records(cache_file.text)
            R == Retained(config, records)
            n == Cardinality(R)
            NotRetained(id) == id \notin R
        IN /\ Len(out) >= n
           /\ { out[i] : i \in 1..n } = R
           /\ \A i, j \in 1..n :
                i < j => Frequency(records, out[i]) >= Frequency(records, out[j])
           /\ SubSeq(out, n + 1, Len(out)) = SelectSeq(Keys(config), NotRetained)

\* the scenario of the specification: {a, b, c} with cache "b 5\nc 2" gives [b, c, a]
C1_Witness ==
    /\ pc = "sorted"
    /\ Keys(config) = <<IdA, IdB, IdC>>
    /\ cache_file.text = <<"b", " ", "5", "\n", "c", " ", "2">>
    /\ Keys(application_config) = <<IdB, IdC, IdA>>

\* C2: the returned mapping has exactly the keys of the config mapping, each
\* once, and maps each to the definition the config mapping gives it.
C2_SameKeysSameDefinitions ==
    Returned =>
        /\ Len(application_config) = Len(config)
        /\ KeySet(application_config) = KeySet(config)
        /\ \A i, j \in 1..Len(application_config) :
             i # j => application_config[i][1] # application_config[j][1]
        /\ \A i \in 1..Len(application_config) :
             application_config[i][2] = Get(config, application_config[i][1])

C2_Witness ==
    /\ pc = "sorted"
    /\ Len(config) = MaxSortEntries
    /\ Keys(application_config) # Keys(config)
    /\ Retained(config, Records(cache_file.text)) # KeySet(config)

\* C6: a line that is not two tokens with an integer second token is skipped
\* without an error and adds nothing to the frequency mapping: the mapping
\* holds exactly the ids of the config with a well-formed line, each with the
\* frequency of its last well-formed line.
C6_MalformedLinesSkipped ==
    Returned =>
        LET records == Records(cache_file.text) IN
        /\ status # "raised"
        /\ KeySet(cached_entries) = Retained(config, records)
        /\ \A id \in KeySet(cached_entries) :
             Get(cached_entries, id) = Frequency(records, id)

\* a malformed line between two well-formed lines, both of which are parsed
C6_Witness ==
    /\ pc = "sorted"
    /\ LET records == Records(cache_file.text) IN
         /\ Len(records) = 3
         /\ records[1] # <<>> /\ records[2] = <<>> /\ records[3] # <<>>
         /\ records[1][1] # records[3][1]
         /\ HasKey(cached_entries, records[1][1])
         /\ HasKey(cached_entries, records[3][1])

\* the pairs of distinct retained ids of equal frequency
TiedPairs(records) ==
    { p \in Retained(config, records) \X Retained(config, records) :
        p[1] # p[2] /\ Frequency(records, p[1]) = Frequency(records, p[2]) }

\* C7 as claimed: retained ids of equal frequency keep the relative order
\* they have in the config mapping.
C7_TiesInConfigOrder ==
    Returned =>
        \A p \in TiedPairs(Records(cache_file.text)) :
            Position(Keys(config), p[1]) < Position(Keys(config), p[2])
                => Position(Keys(application_config), p[1])
                     < Position(Keys(application_config), p[2])

\* C7 amended: retained ids of equal frequency come in the reverse of the
\* order in which their first well-formed lines appear in the cache text,
\* whatever their order in the config mapping.
C7_TiesInReverseCacheOrder ==
    Returned =>
        LET records == Records(cache_file.text) IN
        \A p \in TiedPairs(records) :
            Min(LinesFor(records, p[1])) < Min(LinesFor(records, p[2]))
                => Position(Keys(application_config), p[2])
                     < Position(Keys(application_config), p[1])

\* a tie whose cache order agrees with the config order: the output reverses it
C7_Witness ==
    /\ pc = "sorted"
    /\ LET records == Records(cache_file.text) IN
       \E p \in TiedPairs(records) :
         /\ Position(Keys(config), p[1]) < Position(Keys(config), p[2])
         /\ Min(LinesFor(records, p[1])) < Min(LinesFor(records, p[2]))
         /\ Position(Keys(application_config), p[2]) < Position(Keys(application_config), p[1])

\* C9: sorting the returned mapping again with the same cache text returns
\* the same mapping in the same order, and the same frequency mapping.
C9_Idempotent ==
    pc = "resorted" =>
        /\ ~again.raised
        /\ again.application_config = application_config
        /\ again.cached_entries = cached_entries

C9_Witness ==
    /\ pc = "resorted"
    /\ Keys(application_config) # Keys(config)
    /\ Cardinality(KeySet(config) \ Retained(config, Records(cache_file.text))) >= 2
    /\ Keys(again.application_config) = Keys(application_config)

\* ------------------------------------------------------- the runs of main
\* the frequency mapping a run loads from a cache file
Loaded(file) ==
    IF file.exists THEN sort_from_cache(config, file.text).cached_entries ELSE <<>>

Count(seq, x) == Cardinality({ i \in 1..Len(seq) : seq[i] = x })

Selected == chosen_id # NoId

\* the lines of the cache file
FileLines == IF cache_file.exists THEN Split(cache_file.text, "\n") ELSE <<>>

\* C3 as claimed: over runs that start from an absent or empty cache file,
\* after the k-th run that selected x the cache file stores k - 1 for x
\* (its record is "<x> <k - 1>"): first use 0, second use 1.
C3_StoredCountIsUsesMinusOne ==
    fresh =>
        \A i \in 1..Len(uses) :
            \E j \in 1..Len(FileLines) :
                FileLines[j] = Record(uses[i], Count(uses, uses[i]) - 1)

\* C4: after a cancelled menu the run has exit status 0, and the cache file
\* and its directory are as they were when the run started; nothing is executed.
C4_CancelLeavesCacheAlone ==
    (pc = "done" /\ output = "" /\ status # "raised") =>
        /\ status = "exit0"
        /\ cache_file = file_at_start
        /\ cache_dir = dir_at_start
        /\ argv = <<>>

\* a cancelled second run with a cache file, and a cancelled run without a directory
C4_Witness ==
    /\ pc = "done"
    /\ output = ""
    /\ status = "exit0"
    /\ \/ run = 2 /\ cache_file.exists /\ cache_file.text # <<>>
       \/ ~cache_dir

\* the ids of the well-formed records of a cache file that are no keys of the config
StaleIds(file) ==
    IF ~file.exists THEN {}
    ELSE LET records == Records(file.text) IN
         { records[i][1] : i \in { j \in 1..Len(records) : records[j] # <<>> } } \ KeySet(config)

\* line is the record "<id> <count>" of id
RecordOf(line, id) ==
    /\ Len(line) > Len(id) + 1
    /\ SubSeq(line, 1, Len(id) + 1) = id \o <<" ">>
    /\ IsInteger(SubSeq(line, Len(id) + 2, Len(line)))

\* C5: an id of a cache record that is no key of the config is in neither
\* returned mapping, raises no error, and has no record in the file a run rewrites.
C5_StaleIdsDropped ==
    \A id \in StaleIds(file_at_start) :
        /\ pc # "start" =>
              /\ ~HasKey(application_config, id)
              /\ ~HasKey(cached_entries, id)
              /\ status # "raised"
        /\ (pc \in {"recorded", "done"} /\ Selected) =>
              \A i \in 1..Len(FileLines) : ~RecordOf(FileLines[i], id)

\* a run that loaded a stale record next to a retained one and rewrote the file
C5_Witness ==
    /\ pc = "recorded"
    /\ StaleIds(file_at_start) # {}
    /\ Len(cached_entries) >= 2
    /\ Loaded(file_at_start) # <<>>

NonNegative(entries) == \A i \in 1..Len(entries) : entries[i][2] >= 0

\* C8 as claimed: a frequency mapping over keys of the config with
\* non-negative counts, written as main writes it and parsed again, is the
\* same mapping.
C8_RoundTrip ==
    (pc = "recorded" /\ NonNegative(cached_entries)) =>
        sort_from_cache(config, Serialize(cached_entries)).cached_entries = cached_entries

\* the count a run that chose chosen_id has to write
Expected ==
    IF HasKey(Loaded(file_at_start), chosen_id)
    THEN Get(Loaded(file_at_start), chosen_id) + 1
    ELSE 0

HoldsUpdatedCount ==
    \E i \in 1..Len(FileLines) : FileLines[i] = Record(chosen_id, Expected)

\* C10: the updated count of the chosen id is in the cache file before the
\* binary is resolved, so a run that ends with status 1 because the binary
\* is not found has executed nothing and has left the updated count.
C10_RecordedBeforeResolved ==
    /\ pc = "recorded" => (status = "none" /\ argv = <<>> /\ HoldsUpdatedCount)
    /\ (pc = "done" /\ Selected) =>
          /\ HoldsUpdatedCount
          /\ Which(Get(application_config, chosen_id).binary) = <<>>
                => (status = "exit1" /\ argv = <<>>)

\* a failed launch of an id the cache already counted: 9 becomes 10
C10_Witness ==
    /\ pc = "done"
    /\ status = "exit1"
    /\ chosen_id = IdB
    /\ Expected = 10
    /\ cache_file.text # file_at_start.text

====
